---- MODULE Spec2Model ----
(***************************************************************************)
(* Mint session orchestrator of the Cyphers platform (api-punks):          *)
(* token allocation (config/database.ts), the mint flow                    *)
(* (services/mint.service.ts) and the inscription step                     *)
(* (services/inscribe.service.ts).                                         *)
(*                                                                         *)
(* Every handler is an async function; Node runs it atomically between two *)
(* awaits, and every await on the store is a point where other handlers    *)
(* and background tasks interleave.  Each action below is one such atomic  *)
(* segment, so a handler is a short chain of actions linked by a program   *)
(* counter.                                                                *)
(***************************************************************************)
EXTENDS Integers, Sequences, FiniteSets, TLC

\* ---------------------------------------------------------------- bounds
MaxSupply   == 2     \* TokenCounter.maxSupply of the modelled deployment
MaxStarts   == 3     \* start calls that get as far as creating a session
MaxConfirms == 1     \* confirmPayment calls that pass their status check
MaxTicks    == 2     \* clock advances
NumUsers    == 2

Users      == 1..NumUsers
StartIds   == 1..MaxStarts
ConfirmIds == 1..MaxConfirms
RaceConfirmIds == 1..(MaxConfirms + 1)   \* one more call, for the races
TxHashes   == {"txABC"}

\* ------------------------------------------------------------- constants
SESSION_EXPIRY_MS == 30 * 60 * 1000
TickMs            == SESSION_EXPIRY_MS   \* granularity of the modelled clock

PENDING            == "PENDING"
GENERATING         == "GENERATING"
GENERATION_FAILED  == "GENERATION_FAILED"
AWAITING_PAYMENT   == "AWAITING_PAYMENT"
PAYMENT_RECEIVED   == "PAYMENT_RECEIVED"
INSCRIBING         == "INSCRIBING"
INSCRIPTION_FAILED == "INSCRIPTION_FAILED"
CONFIRMED          == "CONFIRMED"
FAILED             == "FAILED"

MintStatus == {PENDING, GENERATING, GENERATION_FAILED, AWAITING_PAYMENT,
               PAYMENT_RECEIVED, INSCRIBING, INSCRIPTION_FAILED, CONFIRMED,
               FAILED}

\* the statuses startMintSession looks for in its active-session query
ActiveStatuses == {PENDING, GENERATING, AWAITING_PAYMENT}

\* CREATE TYPE "RarityTier"
RarityTiers == {"LEGENDARY", "EPIC", "RARE", "COMMON"}

NoTime        == -1        \* a NULL timestamp column
\* paymentConfirmedAt and inscribedAt are written with new Date() and never read
\* back by the mint flow: the model keeps only that they are set
SetTime       == 0
NoId          == 0         \* a NULL cypherId
NoText        == ""        \* a NULL text column
NoInscription == << >>     \* a NULL inscriptionId
PaymentAddr   == "D_PAYMENT_ADDRESS"

VARIABLES
  now,          \* Date.now() / new Date(), in milliseconds
  counter,      \* the TokenCounter row
  sessions,     \* MintSession rows, keyed by sessionId
  cyphers,      \* CypherNFT rows, keyed by id
  startCalls,   \* startMintSession calls: position, caller, token read
  gen,          \* processGeneration task of each session: position
  confirmCalls, \* processPaymentConfirmation calls: position, session, txHash
  ins,          \* processInscription task of each confirm call
  cancelCalls,  \* cancelSession call in flight on each session
  statusCalls,  \* getSessionStatus call in flight on each session
  resp          \* what the step just taken answered to its caller

vars == <<now, counter, sessions, cyphers, startCalls, gen, confirmCalls,
          ins, cancelCalls, statusCalls, resp>>

\* -------------------------------------------------------------- responses
\* op: the operation answered; caller: its userId argument (0: it has none);
\* result: "ok" or the error thrown
NoResp == [op |-> "none", sid |-> 0, caller |-> 0, result |-> "none",
           status |-> NoText, progress |-> -1]

Summary(op, sid, u, status, progress) ==
  [op |-> op, sid |-> sid, caller |-> u, result |-> "ok",
   status |-> status, progress |-> progress]

Rejected(op, sid, u, err) ==
  [op |-> op, sid |-> sid, caller |-> u, result |-> err,
   status |-> NoText, progress |-> -1]

\* -------------------------------------------------------------- the store
Exists(sid) == sid \in DOMAIN sessions

\* prisma.mintSession.update({ where: { sessionId }, data }): a partial patch
Patch(row, data) ==
  [f \in DOMAIN row |-> IF f \in DOMAIN data THEN data[f] ELSE row[f]]

\* mutant: every update also pushes the session's deadline forward
UpdateSession_ExtendsExpiry(sid, data) ==
  sessions' = [sessions EXCEPT ![sid] =
                 Patch(@, data @@ [expiresAt |-> now + SESSION_EXPIRY_MS])]

UpdateSession(sid, data) ==
  sessions' = [sessions EXCEPT ![sid] = Patch(@, data)]

NewSession(u, tokenId, t) ==
  [userId             |-> u,
   status             |-> PENDING,
   statusMessage      |-> "Session started, initializing...",
   progress           |-> 0,
   paymentAddress     |-> NoText,
   paymentTxHash      |-> NoText,
   paymentConfirmedAt |-> NoTime,
   cypherId           |-> NoId,
   assignedTokenId    |-> tokenId,
   errorMessage       |-> NoText,
   expiresAt          |-> t + SESSION_EXPIRY_MS,
   completedAt        |-> NoTime]

NewCypher(tokenId, tier) ==
  [tokenId       |-> tokenId,
   rarityTier    |-> tier,
   status        |-> AWAITING_PAYMENT,
   inscriptionId |-> NoInscription,
   inscribedAt   |-> NoTime]

\* mutant: the table has no unique index on tokenId
TokenIdTaken_NoUniqueIndex(tokenId) == FALSE

\* CREATE UNIQUE INDEX "CypherNFT_tokenId_key"
TokenIdTaken(tokenId) == \E c \in DOMAIN cyphers : cyphers[c].tokenId = tokenId

\* `dogi_${Date.now()}_${sessionId.slice(0, 8)}`
MockInscriptionId(t, sid) == <<t, sid>>

\* ------------------------------------------------------------------ Init
IdleStart   == [pc |-> "idle", userId |-> 0, nextId |-> 0]
IdleConfirm == [pc |-> "idle", sid |-> 0, txHash |-> NoText]

Init ==
  /\ now = 0
  /\ counter = [lastTokenId |-> 0, maxSupply |-> MaxSupply]
  /\ sessions = << >>
  /\ cyphers = << >>
  /\ startCalls = [k \in StartIds |-> IdleStart]
  /\ gen = [k \in StartIds |-> "none"]
  /\ confirmCalls = [c \in RaceConfirmIds |-> IdleConfirm]
  /\ ins = [c \in RaceConfirmIds |-> "none"]
  /\ cancelCalls = [k \in StartIds |-> "idle"]
  /\ statusCalls = [k \in StartIds |-> "idle"]
  /\ resp = NoResp

\* --------------------------------------------------------------- the clock
Tick ==
  /\ now + TickMs <= MaxTicks * TickMs
  /\ now' = now + TickMs
  /\ resp' = NoResp
  /\ UNCHANGED <<counter, sessions, cyphers, startCalls, gen, confirmCalls,
                 ins, cancelCalls, statusCalls>>

\* ------------------------------------------------------- startMintSession
\* a call that goes on to allocate takes the next free slot; slot k's session
\* gets sessionId k
FreeStart(k) ==
  /\ startCalls[k].pc = "idle"
  /\ \A j \in StartIds : j < k => startCalls[j].pc # "idle"

\* the findFirst query: an unexpired session of the user in an active status
HasActiveSession(u) ==
  \E s \in DOMAIN sessions :
    /\ sessions[s].userId = u
    /\ sessions[s].status \in ActiveStatuses
    /\ sessions[s].expiresAt > now

StartCheck(k, u) ==
  /\ IF HasActiveSession(u)
       THEN /\ resp' = Rejected("start", 0, u, "Conflict")
            /\ UNCHANGED startCalls
       ELSE /\ FreeStart(k)
            /\ startCalls' = [startCalls EXCEPT ![k] =
                                [pc |-> "alloc_read", userId |-> u, nextId |-> 0]]
            /\ resp' = NoResp
  /\ UNCHANGED <<now, counter, sessions, cyphers, gen, confirmCalls, ins,
                 cancelCalls, statusCalls>>

\* getNextTokenId, first statement of the transaction: tx.tokenCounter.findFirst
SoldOut(c) == c.lastTokenId >= c.maxSupply

AllocRead(k) ==
  /\ startCalls[k].pc = "alloc_read"
  /\ IF SoldOut(counter)
       THEN /\ startCalls' = [startCalls EXCEPT ![k] = IdleStart]
            /\ resp' = Rejected("start", 0, startCalls[k].userId, "BadRequest")
       ELSE /\ startCalls' = [startCalls EXCEPT ![k].pc = "alloc_write",
                                                ![k].nextId = counter.lastTokenId + 1]
            /\ resp' = NoResp
  /\ UNCHANGED <<now, counter, sessions, cyphers, gen, confirmCalls, ins,
                 cancelCalls, statusCalls>>

\* getNextTokenId, second statement and commit: tx.tokenCounter.update
AllocWrite(k) ==
  /\ startCalls[k].pc = "alloc_write"
  /\ counter' = [counter EXCEPT !.lastTokenId = startCalls[k].nextId]
  /\ startCalls' = [startCalls EXCEPT ![k].pc = "create"]
  /\ resp' = NoResp
  /\ UNCHANGED <<now, sessions, cyphers, gen, confirmCalls, ins,
                 cancelCalls, statusCalls>>

\* mintSession.create, launch of processGeneration, and the response
StartCreate(k) ==
  /\ startCalls[k].pc = "create"
  /\ sessions' = (k :> NewSession(startCalls[k].userId, startCalls[k].nextId, now))
                   @@ sessions
  /\ gen' = [gen EXCEPT ![k] = "spawned"]
  /\ startCalls' = [startCalls EXCEPT ![k].pc = "done"]
  /\ resp' = Summary("start", k, startCalls[k].userId, PENDING, 5)
  /\ UNCHANGED <<now, counter, cyphers, confirmCalls, ins, cancelCalls,
                 statusCalls>>

\* ------------------------------------------------------ processGeneration
GenSetGenerating(k) ==
  /\ gen[k] = "spawned"
  /\ UpdateSession(k, [status |-> GENERATING,
                       statusMessage |-> "Generating your unique encrypted identity...",
                       progress |-> 10])
  /\ gen' = [gen EXCEPT ![k] = "generating"]
  /\ resp' = NoResp
  /\ UNCHANGED <<now, counter, cyphers, startCalls, confirmCalls, ins,
                 cancelCalls, statusCalls>>

\* generateCypher returned, with the rarity tier it drew, and cypherNFT.create
\* inserted the row
GenCreateCypher(k, tier) ==
  /\ gen[k] = "generating"
  /\ ~TokenIdTaken(sessions[k].assignedTokenId)
  /\ cyphers' = (k :> NewCypher(sessions[k].assignedTokenId, tier)) @@ cyphers
  /\ gen' = [gen EXCEPT ![k] = "created"]
  /\ resp' = NoResp
  /\ UNCHANGED <<now, counter, sessions, startCalls, confirmCalls, ins,
                 cancelCalls, statusCalls>>

\* mutant: the update that links the Cypher leaves out the payment address
GenUpdateSession_NoAddress(k) ==
  /\ gen[k] = "created"
  /\ UpdateSession(k, [cypherId |-> k,
                       status |-> AWAITING_PAYMENT,
                       statusMessage |-> "Cypher generated! Awaiting payment...",
                       progress |-> 50])
  /\ gen' = [gen EXCEPT ![k] = "done"]
  /\ resp' = NoResp
  /\ UNCHANGED <<now, counter, cyphers, startCalls, confirmCalls, ins,
                 cancelCalls, statusCalls>>

\* the mintSession.update that links the Cypher
GenUpdateSession(k) ==
  /\ gen[k] = "created"
  /\ UpdateSession(k, [cypherId |-> k,
                       status |-> AWAITING_PAYMENT,
                       statusMessage |-> "Cypher generated! Awaiting payment...",
                       progress |-> 50,
                       paymentAddress |-> PaymentAddr])
  /\ gen' = [gen EXCEPT ![k] = "done"]
  /\ resp' = NoResp
  /\ UNCHANGED <<now, counter, cyphers, startCalls, confirmCalls, ins,
                 cancelCalls, statusCalls>>

\* the catch block: generateCypher threw, or cypherNFT.create hit the unique
\* index on tokenId
GenFail(k) ==
  /\ gen[k] = "generating"
  /\ \E msg \in {"generateCypher failed"} \cup
                (IF TokenIdTaken(sessions[k].assignedTokenId)
                   THEN {"Unique constraint failed"} ELSE {}) :
       UpdateSession(k, [status |-> GENERATION_FAILED,
                         statusMessage |-> "Generation failed. Please try again.",
                         errorMessage |-> msg])
  /\ gen' = [gen EXCEPT ![k] = "done"]
  /\ resp' = NoResp
  /\ UNCHANGED <<now, counter, cyphers, startCalls, confirmCalls, ins,
                 cancelCalls, statusCalls>>

\* ------------------------------------------------------- getSessionStatus
\* mutant: the expiry test skips every session already in a terminal status
IsExpired_SkipsTerminal(s, t) ==
  /\ s.expiresAt < t
  /\ s.status \notin {CONFIRMED, GENERATION_FAILED, INSCRIPTION_FAILED, FAILED}

\* the expiry test: session.expiresAt < new Date() && !session.completedAt
IsExpired(s, t) == s.expiresAt < t /\ s.completedAt = NoTime

ExpiredPatch == [status |-> FAILED,
                 statusMessage |-> "Session expired",
                 errorMessage |-> "Session timed out"]

\* findUnique, then either the summary or the decision to expire the session
StatusRead(sid) ==
  /\ statusCalls[sid] = "idle"
  /\ IF ~Exists(sid)
       THEN /\ resp' = Rejected("status", sid, 0, "NotFound")
            /\ UNCHANGED statusCalls
       ELSE IF IsExpired(sessions[sid], now)
         THEN /\ statusCalls' = [statusCalls EXCEPT ![sid] = "expire"]
              /\ resp' = NoResp
         ELSE /\ resp' = Summary("status", sid, 0, sessions[sid].status,
                                 sessions[sid].progress)
              /\ UNCHANGED statusCalls
  /\ UNCHANGED <<now, counter, sessions, cyphers, startCalls, gen,
                 confirmCalls, ins, cancelCalls>>

\* updateSession(FAILED) and throw BadRequestError
StatusExpire(sid) ==
  /\ statusCalls[sid] = "expire"
  /\ UpdateSession(sid, ExpiredPatch)
  /\ statusCalls' = [statusCalls EXCEPT ![sid] = "idle"]
  /\ resp' = Rejected("status", sid, 0, "BadRequest")
  /\ UNCHANGED <<now, counter, cyphers, startCalls, gen, confirmCalls, ins,
                 cancelCalls>>

\* --------------------------------------------- processPaymentConfirmation
\* a call that passes the checks takes the next free slot
FreeConfirm(c) ==
  /\ confirmCalls[c].pc = "idle"
  /\ \A j \in 1..(c - 1) : confirmCalls[j].pc # "idle"

\* mutant: the status check is missing, any session with a Cypher passes
ConfirmRejects_NoStatusCheck(s) == s.cypherId = NoId

\* the two BadRequest checks that follow the findUnique
ConfirmRejects(s) == s.status # AWAITING_PAYMENT \/ s.cypherId = NoId

ConfirmRead(c, sid, tx) ==
  /\ IF ~Exists(sid)
       THEN /\ resp' = Rejected("confirm", sid, 0, "NotFound")
            /\ UNCHANGED confirmCalls
       ELSE IF ConfirmRejects(sessions[sid])
         THEN /\ resp' = Rejected("confirm", sid, 0, "BadRequest")
              /\ UNCHANGED confirmCalls
         ELSE /\ FreeConfirm(c)
              /\ confirmCalls' = [confirmCalls EXCEPT ![c] =
                                    [pc |-> "write", sid |-> sid, txHash |-> tx]]
              /\ resp' = NoResp
  /\ UNCHANGED <<now, counter, sessions, cyphers, startCalls, gen, ins,
                 cancelCalls, statusCalls>>

\* mutant: the update records the payment reference without its time
ConfirmWrite_NoConfirmedAt(c) ==
  /\ confirmCalls[c].pc = "write"
  /\ UpdateSession(confirmCalls[c].sid,
                   [paymentTxHash |-> confirmCalls[c].txHash,
                    status |-> PAYMENT_RECEIVED,
                    statusMessage |-> "Payment received! Starting inscription...",
                    progress |-> 60])
  /\ ins' = [ins EXCEPT ![c] = "spawned"]
  /\ confirmCalls' = [confirmCalls EXCEPT ![c].pc = "return"]
  /\ resp' = NoResp
  /\ UNCHANGED <<now, counter, cyphers, startCalls, gen, cancelCalls,
                 statusCalls>>

\* the mintSession.update with the payment info, and the launch of
\* processInscription
ConfirmWrite(c) ==
  /\ confirmCalls[c].pc = "write"
  /\ UpdateSession(confirmCalls[c].sid,
                   [paymentTxHash |-> confirmCalls[c].txHash,
                    paymentConfirmedAt |-> SetTime,
                    status |-> PAYMENT_RECEIVED,
                    statusMessage |-> "Payment received! Starting inscription...",
                    progress |-> 60])
  /\ ins' = [ins EXCEPT ![c] = "spawned"]
  /\ confirmCalls' = [confirmCalls EXCEPT ![c].pc = "return"]
  /\ resp' = NoResp
  /\ UNCHANGED <<now, counter, cyphers, startCalls, gen, cancelCalls,
                 statusCalls>>

\* return getSessionStatus(sessionId): its findUnique
ConfirmReturn(c) ==
  /\ confirmCalls[c].pc = "return"
  /\ LET sid == confirmCalls[c].sid IN
       IF IsExpired(sessions[sid], now)
         THEN /\ confirmCalls' = [confirmCalls EXCEPT ![c].pc = "expire"]
              /\ resp' = NoResp
         ELSE /\ confirmCalls' = [confirmCalls EXCEPT ![c].pc = "done"]
              /\ resp' = Summary("confirm", sid, 0, sessions[sid].status,
                                 sessions[sid].progress)
  /\ UNCHANGED <<now, counter, sessions, cyphers, startCalls, gen, ins,
                 cancelCalls, statusCalls>>

\* return getSessionStatus(sessionId): its expiry write and throw
ConfirmExpire(c) ==
  /\ confirmCalls[c].pc = "expire"
  /\ UpdateSession(confirmCalls[c].sid, ExpiredPatch)
  /\ confirmCalls' = [confirmCalls EXCEPT ![c].pc = "done"]
  /\ resp' = Rejected("confirm", confirmCalls[c].sid, 0, "BadRequest")
  /\ UNCHANGED <<now, counter, cyphers, startCalls, gen, ins, cancelCalls,
                 statusCalls>>

\* ----------------------------------- processInscription / createInscription
\* createInscription: the mintSession.update to INSCRIBING and the mock result
InsStart(c) ==
  /\ ins[c] = "spawned"
  /\ UpdateSession(confirmCalls[c].sid,
                   [status |-> INSCRIBING,
                    statusMessage |-> "Creating Doginal inscription...",
                    progress |-> 80])
  /\ ins' = [ins EXCEPT ![c] = "inscribing"]
  /\ resp' = NoResp
  /\ UNCHANGED <<now, counter, cyphers, startCalls, gen, confirmCalls,
                 cancelCalls, statusCalls>>

InscriptionFailedPatch(msg) ==
  [status |-> INSCRIPTION_FAILED, statusMessage |-> msg,
   errorMessage |-> "Inscription error"]

\* createInscription's catch block: the update to INSCRIBING threw
InsFail(c) ==
  /\ ins[c] = "spawned"
  /\ UpdateSession(confirmCalls[c].sid, InscriptionFailedPatch("Inscription failed"))
  /\ ins' = [ins EXCEPT ![c] = "failed"]
  /\ resp' = NoResp
  /\ UNCHANGED <<now, counter, cyphers, startCalls, gen, confirmCalls,
                 cancelCalls, statusCalls>>

\* processInscription's catch block, entered on result.success = false
InsCatch(c) ==
  /\ ins[c] = "failed"
  /\ UpdateSession(confirmCalls[c].sid,
                   InscriptionFailedPatch("Inscription failed. Contact support."))
  /\ ins' = [ins EXCEPT ![c] = "done"]
  /\ resp' = NoResp
  /\ UNCHANGED <<now, counter, cyphers, startCalls, gen, confirmCalls,
                 cancelCalls, statusCalls>>

\* ------------------------------------------------------------ finalizeMint
\* findUnique and cypherNFT.update
FinalizeCypher(c) ==
  /\ ins[c] = "inscribing"
  /\ LET cid == sessions[confirmCalls[c].sid].cypherId IN
       cyphers' = [cyphers EXCEPT ![cid] =
                     Patch(@, [inscriptionId |-> MockInscriptionId(now, confirmCalls[c].sid),
                               inscribedAt |-> SetTime,
                               status |-> CONFIRMED])]
  /\ ins' = [ins EXCEPT ![c] = "fin_session"]
  /\ resp' = NoResp
  /\ UNCHANGED <<now, counter, sessions, startCalls, gen, confirmCalls,
                 cancelCalls, statusCalls>>

\* mutant: the update to CONFIRMED leaves completedAt unset
FinalizeSession_NoCompletedAt(c) ==
  /\ ins[c] = "fin_session"
  /\ UpdateSession(confirmCalls[c].sid,
                   [status |-> CONFIRMED,
                    statusMessage |-> "Cypher successfully inscribed!",
                    progress |-> 100])
  /\ ins' = [ins EXCEPT ![c] = "done"]
  /\ resp' = NoResp
  /\ UNCHANGED <<now, counter, cyphers, startCalls, gen, confirmCalls,
                 cancelCalls, statusCalls>>

\* mintSession.update to CONFIRMED
FinalizeSession(c) ==
  /\ ins[c] = "fin_session"
  /\ UpdateSession(confirmCalls[c].sid,
                   [status |-> CONFIRMED,
                    statusMessage |-> "Cypher successfully inscribed!",
                    progress |-> 100,
                    completedAt |-> now])
  /\ ins' = [ins EXCEPT ![c] = "done"]
  /\ resp' = NoResp
  /\ UNCHANGED <<now, counter, cyphers, startCalls, gen, confirmCalls,
                 cancelCalls, statusCalls>>

\* finalizeMint's catch block: a store call threw, false is returned and
\* processInscription drops the result
FinalizeFail(c) ==
  /\ ins[c] \in {"inscribing", "fin_session"}
  /\ ins' = [ins EXCEPT ![c] = "done"]
  /\ resp' = NoResp
  /\ UNCHANGED <<now, counter, sessions, cyphers, startCalls, gen,
                 confirmCalls, cancelCalls, statusCalls>>

\* ----------------------------------------------------------- cancelSession
\* mutant: the check of the recorded payment reference is missing
CancelRejects_NoPaymentCheck(s, u) ==
  \/ s.userId # u
  \/ s.status = CONFIRMED

\* mutant: the check of the caller against the session's owner is missing
CancelRejects_NoOwnerCheck(s, u) ==
  \/ s.status = CONFIRMED
  \/ s.paymentTxHash # NoText

\* the three BadRequest checks that follow the findUnique
CancelRejects(s, u) ==
  \/ s.userId # u
  \/ s.status = CONFIRMED
  \/ s.paymentTxHash # NoText

CancelRead(sid, u) ==
  /\ cancelCalls[sid] = "idle"
  /\ IF ~Exists(sid)
       THEN /\ resp' = Rejected("cancel", sid, u, "NotFound")
            /\ UNCHANGED cancelCalls
       ELSE IF CancelRejects(sessions[sid], u)
         THEN /\ resp' = Rejected("cancel", sid, u, "BadRequest")
              /\ UNCHANGED cancelCalls
         ELSE /\ cancelCalls' = [cancelCalls EXCEPT ![sid] = "write"]
              /\ resp' = NoResp
  /\ UNCHANGED <<now, counter, sessions, cyphers, startCalls, gen,
                 confirmCalls, ins, statusCalls>>

\* mutant: the cancel update also clears the recorded payment reference
CancelWrite_ClearsPayment(sid) ==
  /\ cancelCalls[sid] = "write"
  /\ UpdateSession(sid, [status |-> FAILED,
                         statusMessage |-> "Cancelled by user",
                         paymentTxHash |-> NoText])
  /\ cancelCalls' = [cancelCalls EXCEPT ![sid] = "idle"]
  /\ resp' = [op |-> "cancel", sid |-> sid, caller |-> sessions[sid].userId,
              result |-> "ok", status |-> NoText, progress |-> -1]
  /\ UNCHANGED <<now, counter, cyphers, startCalls, gen, confirmCalls, ins,
                 statusCalls>>

CancelWrite(sid) ==
  /\ cancelCalls[sid] = "write"
  /\ UpdateSession(sid, [status |-> FAILED,
                         statusMessage |-> "Cancelled by user"])
  /\ cancelCalls' = [cancelCalls EXCEPT ![sid] = "idle"]
  /\ resp' = [op |-> "cancel", sid |-> sid, caller |-> sessions[sid].userId,
              result |-> "ok", status |-> NoText, progress |-> -1]
  /\ UNCHANGED <<now, counter, cyphers, startCalls, gen, confirmCalls, ins,
                 statusCalls>>

\* ------------------------------------------------------------ getMintStats
\* prisma.cypherNFT.groupBy({ by: ['rarityTier'], where: { status: CONFIRMED } })
\* folded into the four-key record
RarityBreakdown ==
  [tier \in RarityTiers |->
     Cardinality({c \in DOMAIN cyphers :
                    cyphers[c].status = CONFIRMED /\ cyphers[c].rarityTier = tier})]

\* what getMintStats returns on the present store
MintStats ==
  [totalMinted     |-> counter.lastTokenId,
   remaining       |-> counter.maxSupply - counter.lastTokenId,
   rarityBreakdown |-> RarityBreakdown]

GetMintStats ==
  /\ resp' = [op |-> "stats", sid |-> 0, caller |-> 0, result |-> "ok",
              status |-> NoText, progress |-> -1, stats |-> MintStats]
  /\ UNCHANGED <<now, counter, sessions, cyphers, startCalls, gen,
                 confirmCalls, ins, cancelCalls, statusCalls>>

\* ------------------------------------------------------- specifications
\* The whole mint flow of one session, the first start call's: start,
\* generation, polling, cancel, payment confirmations and their inscription
\* tasks.  Concurrent start calls are SpecAlloc's.
SessionIds == {1}

\* only getMintStats reads a Cypher's rarity tier: the specifications without
\* it let the generator draw one tier
SessionTiers == {"COMMON"}

\* the steps of the session's handlers and of its generation task
SessionSteps ==
  \/ Tick
  \/ \E k \in SessionIds, u \in Users : StartCheck(k, u)
  \/ \E k \in SessionIds : AllocRead(k)
  \/ \E k \in SessionIds : AllocWrite(k)
  \/ \E k \in SessionIds : StartCreate(k)
  \/ \E k \in SessionIds : GenSetGenerating(k)
  \/ \E k \in SessionIds, tier \in SessionTiers : GenCreateCypher(k, tier)
  \/ \E k \in SessionIds : GenUpdateSession(k)
  \/ \E k \in SessionIds : GenFail(k)
  \/ \E sid \in SessionIds : StatusRead(sid)
  \/ \E sid \in SessionIds : StatusExpire(sid)
  \/ \E sid \in SessionIds, u \in Users : CancelRead(sid, u)
  \/ \E sid \in SessionIds : CancelWrite(sid)

\* the steps of the confirmPayment calls of C and of their inscription tasks
ConfirmSteps(C) ==
  \/ \E c \in C, sid \in SessionIds, tx \in TxHashes : ConfirmRead(c, sid, tx)
  \/ \E c \in C : ConfirmWrite(c)
  \/ \E c \in C : ConfirmReturn(c)
  \/ \E c \in C : ConfirmExpire(c)
  \/ \E c \in C : InsStart(c)
  \/ \E c \in C : InsFail(c)
  \/ \E c \in C : InsCatch(c)
  \/ \E c \in C : FinalizeCypher(c)
  \/ \E c \in C : FinalizeSession(c)
  \/ \E c \in C : FinalizeFail(c)

Next == SessionSteps \/ ConfirmSteps(ConfirmIds)

Spec == Init /\ [][Next]_vars

\* concurrent start calls and their generation tasks only
NextAlloc ==
  \/ \E k \in StartIds, u \in Users : StartCheck(k, u)
  \/ \E k \in StartIds : AllocRead(k)
  \/ \E k \in StartIds : AllocWrite(k)
  \/ \E k \in StartIds : StartCreate(k)
  \/ \E k \in StartIds : GenSetGenerating(k)
  \/ \E k \in StartIds, tier \in SessionTiers : GenCreateCypher(k, tier)
  \/ \E k \in StartIds : GenUpdateSession(k)
  \/ \E k \in StartIds : GenFail(k)

SpecAlloc == Init /\ [][NextAlloc]_vars

\* the mint flow of one session with one more confirmPayment call in flight
NextRace == SessionSteps \/ ConfirmSteps(RaceConfirmIds)

SpecRace == Init /\ [][NextRace]_vars

\* two start calls, their generation tasks, and the payment confirmation and
\* inscription of either session, and the statistics read; no clock, so no
\* session expires
RestartIds == {1, 2}

NextRestart ==
  \/ GetMintStats
  \/ \E k \in RestartIds, u \in Users : StartCheck(k, u)
  \/ \E k \in RestartIds : AllocRead(k)
  \/ \E k \in RestartIds : AllocWrite(k)
  \/ \E k \in RestartIds : StartCreate(k)
  \/ \E k \in RestartIds : GenSetGenerating(k)
  \/ \E k \in RestartIds, tier \in RarityTiers : GenCreateCypher(k, tier)
  \/ \E k \in RestartIds : GenUpdateSession(k)
  \/ \E k \in RestartIds : GenFail(k)
  \/ \E c \in ConfirmIds, sid \in RestartIds, tx \in TxHashes : ConfirmRead(c, sid, tx)
  \/ \E c \in ConfirmIds : ConfirmWrite(c)
  \/ \E c \in ConfirmIds : ConfirmReturn(c)
  \/ \E c \in ConfirmIds : InsStart(c)
  \/ \E c \in ConfirmIds : InsFail(c)
  \/ \E c \in ConfirmIds : InsCatch(c)
  \/ \E c \in ConfirmIds : FinalizeCypher(c)
  \/ \E c \in ConfirmIds : FinalizeSession(c)
  \/ \E c \in ConfirmIds : FinalizeFail(c)

SpecRestart == Init /\ [][NextRestart]_vars

\* issuance alone: two startMintSession calls and their generation tasks,
\* with every rarity tier
NextIssue ==
  \/ \E k \in RestartIds, u \in Users : StartCheck(k, u)
  \/ \E k \in RestartIds : AllocRead(k)
  \/ \E k \in RestartIds : AllocWrite(k)
  \/ \E k \in RestartIds : StartCreate(k)
  \/ \E k \in RestartIds : GenSetGenerating(k)
  \/ \E k \in RestartIds, tier \in RarityTiers : GenCreateCypher(k, tier)
  \/ \E k \in RestartIds : GenUpdateSession(k)
  \/ \E k \in RestartIds : GenFail(k)

SpecIssue == Init /\ [][NextIssue]_vars

\* the mint flow of one session when the generator, the inscriber and the
\* store calls of finalizeMint succeed and nobody cancels
NextLive ==
  \/ Tick
  \/ \E k \in SessionIds, u \in Users : StartCheck(k, u)
  \/ \E k \in SessionIds : AllocRead(k)
  \/ \E k \in SessionIds : AllocWrite(k)
  \/ \E k \in SessionIds : StartCreate(k)
  \/ \E k \in SessionIds : GenSetGenerating(k)
  \/ \E k \in SessionIds, tier \in SessionTiers : GenCreateCypher(k, tier)
  \/ \E k \in SessionIds : GenUpdateSession(k)
  \/ \E sid \in SessionIds : StatusRead(sid)
  \/ \E sid \in SessionIds : StatusExpire(sid)
  \/ \E c \in ConfirmIds, sid \in SessionIds, tx \in TxHashes : ConfirmRead(c, sid, tx)
  \/ \E c \in ConfirmIds : ConfirmWrite(c)
  \/ \E c \in ConfirmIds : ConfirmReturn(c)
  \/ \E c \in ConfirmIds : ConfirmExpire(c)
  \/ \E c \in ConfirmIds : InsStart(c)
  \/ \E c \in ConfirmIds : FinalizeCypher(c)
  \/ \E c \in ConfirmIds : FinalizeSession(c)

\* the next segment of a started handler or task: the event loop resumes every
\* async function whose awaited store call has resolved
StartResumes(k)   == AllocRead(k) \/ AllocWrite(k) \/ StartCreate(k)
GenResumes(k) ==
  \/ GenSetGenerating(k)
  \/ \E tier \in SessionTiers : GenCreateCypher(k, tier)
  \/ GenUpdateSession(k)
ConfirmResumes(c) == ConfirmWrite(c) \/ ConfirmReturn(c) \/ ConfirmExpire(c)
InsResumes(c)     == InsStart(c) \/ FinalizeCypher(c) \/ FinalizeSession(c)

SpecLive ==
  /\ Init
  /\ [][NextLive]_vars
  /\ \A k \in SessionIds : WF_vars(StartResumes(k))
  /\ \A k \in SessionIds : WF_vars(GenResumes(k))
  /\ \A sid \in SessionIds : WF_vars(StatusExpire(sid))
  /\ \A c \in ConfirmIds : WF_vars(ConfirmResumes(c))
  /\ \A c \in ConfirmIds : WF_vars(InsResumes(c))

\* ================================================================ claims
TerminalStatuses    == {CONFIRMED, GENERATION_FAILED, INSCRIPTION_FAILED, FAILED}
NonTerminalStatuses == MintStatus \ TerminalStatuses
PrePaymentStatuses  == {PENDING, GENERATING, AWAITING_PAYMENT}

\* a start call that getNextTokenId has answered with a token id
Allocated(k) == startCalls[k].pc \in {"create", "done"}

\* C1: no two allocate() calls return the same token identifier, and no two
\* mint sessions hold the same assignedTokenId.
C1_DistinctTokenIds ==
  /\ \A j, k \in StartIds :
       (j # k /\ Allocated(j) /\ Allocated(k))
         => startCalls[j].nextId # startCalls[k].nextId
  /\ \A s, t \in DOMAIN sessions :
       s # t => sessions[s].assignedTokenId # sessions[t].assignedTokenId

\* C2: each identity has at most one session whose stored status is
\* non-terminal.
C2_OneNonTerminalSession ==
  \A u \in Users :
    Cardinality({s \in DOMAIN sessions :
                   /\ sessions[s].userId = u
                   /\ sessions[s].status \in NonTerminalStatuses}) <= 1

\* a step of a running generation or inscription task
BackgroundStep ==
  \/ \E k \in StartIds : gen[k] # "none" /\ gen'[k] # gen[k]
  \/ \E c \in RaceConfirmIds : ins[c] # "none" /\ ins'[c] # ins[c]

\* C3: once a session's stored status is terminal, no step of a background
\* generation or inscription task changes that status.
C3_TerminalIsFinal ==
  [][BackgroundStep =>
       \A s \in DOMAIN sessions :
         sessions[s].status \in TerminalStatuses
           => sessions'[s].status = sessions[s].status]_vars

\* the edges of the state machine, cancellation and expiry included
StateMachineEdge(s, from, to) ==
  \/ from = PENDING          /\ to = GENERATING
  \/ from = GENERATING       /\ to \in {GENERATION_FAILED, AWAITING_PAYMENT}
  \/ from = AWAITING_PAYMENT /\ to = PAYMENT_RECEIVED
  \/ from = PAYMENT_RECEIVED /\ to = INSCRIBING
  \/ from = INSCRIBING       /\ to \in {INSCRIPTION_FAILED, CONFIRMED}
  \/ from \in PrePaymentStatuses /\ to = FAILED
  \/ from \in NonTerminalStatuses /\ to = FAILED /\ now > sessions[s].expiresAt

\* C4: every change of a session's stored status follows an edge of the state
\* machine, or is a cancellation from a pre-payment state, or an expiry from
\* a non-terminal state.
C4_OnlyStateMachineEdges ==
  [][\A s \in DOMAIN sessions :
       sessions'[s].status # sessions[s].status
         => StateMachineEdge(s, sessions[s].status, sessions'[s].status)]_vars

C6_ConfirmRejectedUnchanged ==
  [][\A c \in RaceConfirmIds, sid \in DOMAIN sessions, tx \in TxHashes :
       ( /\ ConfirmRead(c, sid, tx)
         /\ (sessions[sid].status # AWAITING_PAYMENT \/ sessions[sid].cypherId = NoId) )
       => ( /\ resp' = Rejected("confirm", sid, 0, "BadRequest")
            /\ UNCHANGED <<sessions, cyphers, counter, ins, confirmCalls>> )]_vars

\* C6 witness: a confirmPayment on a session already CONFIRMED was rejected
\* (the other rejection of the handler, its closing status read of an expired
\* session, leaves the session FAILED)
C6_Witness ==
  \E sid \in DOMAIN sessions :
    /\ resp = Rejected("confirm", sid, 0, "BadRequest")
    /\ sessions[sid].status = CONFIRMED
    /\ sessions[sid].cypherId # NoId

\* C7: cancel invoked by the owner of a session that has a recorded payment
\* reference is rejected and leaves the session unchanged.
C7_CancelAfterPaymentRejected ==
  [][\A sid \in DOMAIN sessions, u \in Users :
       ( /\ CancelRead(sid, u)
         /\ u = sessions[sid].userId
         /\ sessions[sid].paymentTxHash # NoText )
       => ( /\ resp' = Rejected("cancel", sid, u, "BadRequest")
            /\ UNCHANGED <<sessions, cancelCalls>> )]_vars

\* C7 witness: the owner's cancel was rejected on a paid, unconfirmed session
C7_Witness ==
  \E sid \in DOMAIN sessions :
    /\ resp = Rejected("cancel", sid, sessions[sid].userId, "BadRequest")
    /\ sessions[sid].paymentTxHash # NoText
    /\ sessions[sid].status # CONFIRMED

\* C8: two concurrent start calls of different identities that find one token
\* left (lastTokenId = maxSupply - 1) never both obtain a token id.
C8_LastTokenIssuedOnce ==
  \A j, k \in StartIds :
    ( /\ j # k
      /\ startCalls[j].userId # startCalls[k].userId
      /\ Allocated(j) /\ Allocated(k) )
    => ~(startCalls[j].nextId = counter.maxSupply /\ startCalls[k].nextId = counter.maxSupply)

\* C9: lastTokenId never exceeds maxSupply and never decreases from one state
\* to the next.
C9_CounterMonotonicBounded ==
  [][/\ counter'.lastTokenId >= counter.lastTokenId
     /\ counter'.lastTokenId <= counter'.maxSupply]_vars

\* C10: a Cypher's inscriptionId is written at most once (finalizeMint writes
\* it only while it is unset) and, once set, never changes.
C10_InscriptionWrittenOnce ==
  [][/\ \A c \in RaceConfirmIds :
          FinalizeCypher(c)
            => cyphers[sessions[confirmCalls[c].sid].cypherId].inscriptionId = NoInscription
     /\ \A id \in DOMAIN cyphers :
          cyphers[id].inscriptionId # NoInscription
            => cyphers'[id].inscriptionId = cyphers[id].inscriptionId]_vars

\* C11: a session's stored progress stays within 0..100 and, while the
\* session's status is non-terminal, no step lowers it.
C11_ProgressMonotonic ==
  [][\A s \in DOMAIN sessions :
       /\ sessions'[s].progress \in 0..100
       /\ sessions[s].status \in NonTerminalStatuses
            => sessions'[s].progress >= sessions[s].progress]_vars

\* C12: in no state is a Cypher CONFIRMED with its inscriptionId set while
\* the session that links it is not CONFIRMED with progress 100 and
\* completedAt set.
C12_FinalizationAtomic ==
  \A s \in DOMAIN sessions :
    ( /\ sessions[s].cypherId # NoId
      /\ cyphers[sessions[s].cypherId].status = CONFIRMED
      /\ cyphers[sessions[s].cypherId].inscriptionId # NoInscription )
    => ( /\ sessions[s].status = CONFIRMED
         /\ sessions[s].progress = 100
         /\ sessions[s].completedAt # NoTime )

\* C13: a start call of an identity that has a session in a non-terminal
\* status (PENDING, GENERATING, AWAITING_PAYMENT, PAYMENT_RECEIVED or
\* INSCRIBING) is rejected with Conflict, allocates no token and creates no
\* session.
C13_StartRejectedWhileNonTerminal ==
  [][\A k \in StartIds, u \in Users :
       ( /\ StartCheck(k, u)
         /\ \E s \in DOMAIN sessions :
              sessions[s].userId = u /\ sessions[s].status \in NonTerminalStatuses )
       => ( /\ resp' = Rejected("start", 0, u, "Conflict")
            /\ UNCHANGED <<counter, sessions, startCalls>> )]_vars

\* a confirmPayment call has passed its checks on the session while it is
\* AWAITING_PAYMENT with progress 50 and its payment address, before expiresAt
ConfirmedInTime(sid) ==
  /\ Exists(sid)
  /\ \E c \in ConfirmIds : confirmCalls[c].pc = "write" /\ confirmCalls[c].sid = sid
  /\ sessions[sid].status = AWAITING_PAYMENT
  /\ sessions[sid].progress = 50
  /\ sessions[sid].paymentAddress = PaymentAddr
  /\ now < sessions[sid].expiresAt

PaymentReceived(sid) == Exists(sid) /\ sessions[sid].status = PAYMENT_RECEIVED

Minted(sid) ==
  /\ Exists(sid)
  /\ sessions[sid].status = CONFIRMED
  /\ sessions[sid].progress = 100
  /\ sessions[sid].cypherId # NoId
  /\ cyphers[sessions[sid].cypherId].inscriptionId # NoInscription

\* C14: when the generator and the inscriber succeed, nobody cancels and
\* confirmPayment is submitted on the AWAITING_PAYMENT session before its
\* deadline, the session goes through PAYMENT_RECEIVED and eventually is
\* CONFIRMED with progress 100 and its Cypher's inscriptionId set, for good.
C14_EndToEndSuccess ==
  \A sid \in SessionIds :
    [](ConfirmedInTime(sid)
         => /\ <>PaymentReceived(sid)
            /\ <>[]Minted(sid))

\* C15: once a session has ended in GENERATION_FAILED with its error captured,
\* a start by the same identity is not turned away for that session, no later
\* allocation returns the failed session's token id, no later session gets
\* it, and the remaining count that getMintStats reports never increases.
C15_FailedTokenRetired ==
  [][\A s \in DOMAIN sessions :
       ( /\ sessions[s].status = GENERATION_FAILED
         /\ sessions[s].errorMessage # NoText )
       => ( /\ \A k \in StartIds :
                 ( /\ StartCheck(k, sessions[s].userId)
                   /\ \A t \in DOMAIN sessions :
                        sessions[t].userId = sessions[s].userId
                          => sessions[t].status \in TerminalStatuses )
                 => resp'.result # "Conflict"
            /\ \A k \in StartIds :
                 (AllocWrite(k) \/ StartCreate(k))
                   => startCalls[k].nextId # sessions[s].assignedTokenId
            /\ MintStats'.remaining <= MintStats.remaining )]_vars

\* the Cyphers getMintStats counts: those in status CONFIRMED
ConfirmedCyphers == {c \in DOMAIN cyphers : cyphers[c].status = CONFIRMED}

\* C17: getMintStats changes nothing in the store and, with N confirmed
\* Cyphers, returns totalMinted = N and a rarity breakdown whose counts sum
\* to N, whatever token ids other sessions have consumed.
C17_StatsCountConfirmed ==
  [][GetMintStats
       => ( /\ UNCHANGED <<counter, sessions, cyphers>>
            /\ resp'.stats.totalMinted = Cardinality(ConfirmedCyphers)
            /\ resp'.stats.rarityBreakdown["LEGENDARY"]
                 + resp'.stats.rarityBreakdown["EPIC"]
                 + resp'.stats.rarityBreakdown["RARE"]
                 + resp'.stats.rarityBreakdown["COMMON"]
                 = Cardinality(ConfirmedCyphers) )]_vars

\* a session as a successful cancel leaves it
Cancelled(s) == s.status = FAILED /\ s.statusMessage = "Cancelled by user"

\* C16: a successful cancel (no payment reference recorded) leaves the session
\* FAILED (cancelled), the session stays FAILED from then on, and a
\* confirmPayment on it is rejected with a client error and goes no further.
C16_CancelledStaysRejected ==
  [][\A sid \in DOMAIN sessions :
       /\ CancelWrite(sid) => Cancelled(sessions'[sid])
       /\ Cancelled(sessions[sid]) => sessions'[sid].status = FAILED
       /\ \A c \in RaceConfirmIds, tx \in TxHashes :
            (ConfirmRead(c, sid, tx) /\ sessions[sid].status = FAILED)
              => ( /\ resp'.result \in {"Conflict", "BadRequest"}
                   /\ UNCHANGED <<sessions, confirmCalls, ins>> )]_vars

\* C18: a session is created with expiresAt = creation time + SESSION_EXPIRY_MS
\* and the token id its start call was given, and no step of any handler or
\* task changes either field afterwards, nor removes the session.
C18_ExpiryAndTokenFrozen ==
  [][/\ \A k \in StartIds :
          StartCreate(k)
            => /\ sessions'[k].expiresAt = now + SESSION_EXPIRY_MS
               /\ sessions'[k].assignedTokenId = startCalls[k].nextId
     /\ \A s \in DOMAIN sessions :
          /\ s \in DOMAIN sessions'
          /\ sessions'[s].expiresAt = sessions[s].expiresAt
          /\ sessions'[s].assignedTokenId = sessions[s].assignedTokenId]_vars

\* C18 witness: a session updated all the way to CONFIRMED, at a later clock
\* value than its creation, still has its creation-time deadline and token id
C18_Witness ==
  \E s \in DOMAIN sessions :
    /\ sessions[s].status = CONFIRMED
    /\ sessions[s].completedAt > sessions[s].expiresAt - SESSION_EXPIRY_MS
    /\ sessions[s].expiresAt = SESSION_EXPIRY_MS
    /\ sessions[s].assignedTokenId = startCalls[s].nextId

\* C19: cancel by a caller who is not the session's owner, or on a session
\* that is CONFIRMED, is rejected and leaves the session unchanged.
C19_CancelRejectedNotOwnerOrConfirmed ==
  [][\A sid \in DOMAIN sessions, u \in Users :
       ( /\ CancelRead(sid, u)
         /\ (u # sessions[sid].userId \/ sessions[sid].status = CONFIRMED) )
       => ( /\ resp' = Rejected("cancel", sid, u, "BadRequest")
            /\ UNCHANGED <<sessions, cyphers, cancelCalls>> )]_vars

\* C19 witness: the cancel of a caller who is not the owner was rejected on a
\* session that is neither paid nor CONFIRMED
C19_Witness ==
  \E sid \in DOMAIN sessions, u \in Users :
    /\ resp = Rejected("cancel", sid, u, "BadRequest")
    /\ u # sessions[sid].userId
    /\ sessions[sid].paymentTxHash = NoText
    /\ sessions[sid].status \in PrePaymentStatuses

\* C20: a getStatus call on a session that is in a terminal status, or whose
\* deadline has not passed, changes nothing: it writes nothing and goes on to
\* no write.
C20_StatusReadOnlyUnlessExpired ==
  [][\A sid \in DOMAIN sessions :
       ( /\ StatusRead(sid)
         /\ \/ sessions[sid].status \in TerminalStatuses
            \/ ~(now > sessions[sid].expiresAt) )
       => UNCHANGED <<sessions, cyphers, counter, statusCalls>>]_vars

\* no processGeneration task is running, and no start call is between its
\* allocation and the launch of its generation task
NoGenerationInFlight ==
  \A k \in StartIds :
    gen[k] \in {"none", "done"} /\ startCalls[k].pc \in {"idle", "done"}

\* the Cyphers that carry token id n
CyphersOfToken(n) == {c \in DOMAIN cyphers : cyphers[c].tokenId = n}

ConfirmWritten(sid) ==
  {c \in RaceConfirmIds :
     confirmCalls[c].sid = sid /\ confirmCalls[c].pc \in {"return", "expire", "done"}}

\* C22: cancel and confirmPayment are not mutually excluded.  A cancel that
\* passed its checks writes FAILED even after a confirmPayment has written,
\* and keeps the payment reference; a confirmPayment that passed its checks
\* writes PAYMENT_RECEIVED and its reference even after a cancel has written;
\* the stored status is the one written last.
C22_CancelConfirmLastWriteWins ==
  [][\A sid \in DOMAIN sessions :
       /\ (CancelWrite(sid) /\ ConfirmWritten(sid) # {})
            => /\ sessions'[sid].status = FAILED
               /\ sessions'[sid].paymentTxHash = sessions[sid].paymentTxHash
               /\ sessions'[sid].paymentTxHash \in TxHashes
       /\ \A c \in RaceConfirmIds :
            (ConfirmWrite(c) /\ confirmCalls[c].sid = sid)
              => /\ sessions'[sid].status = PAYMENT_RECEIVED
                 /\ sessions'[sid].paymentTxHash = confirmCalls[c].txHash]_vars

\* C22 witness: both calls passed their checks on the AWAITING_PAYMENT session
\* and succeeded, cancel wrote last: the session is FAILED (cancelled) with
\* the payment reference recorded and the inscription task launched
C22_Witness ==
  \E sid \in DOMAIN sessions :
    /\ resp.op = "cancel" /\ resp.result = "ok" /\ resp.sid = sid
    /\ Cancelled(sessions[sid])
    /\ sessions[sid].paymentTxHash \in TxHashes
    /\ \E c \in ConfirmWritten(sid) : ins[c] # "none"

\* the inscription tasks launched for a session
InscriptionTasks(sid) ==
  {c \in RaceConfirmIds : ins[c] # "none" /\ confirmCalls[c].sid = sid}

\* C23: at most one inscription task is ever launched per session.
C23_OneInscriptionTask ==
  \A sid \in DOMAIN sessions : Cardinality(InscriptionTasks(sid)) <= 1

\* C24: once a session's deadline has passed, no step moves its stored status
\* to PAYMENT_RECEIVED, INSCRIBING or CONFIRMED.
C24_DeadlineBoundsFlow ==
  [][\A s \in DOMAIN sessions :
       ( /\ now > sessions[s].expiresAt
         /\ sessions'[s].status # sessions[s].status )
       => sessions'[s].status \notin {PAYMENT_RECEIVED, INSCRIBING, CONFIRMED}]_vars

\* C25: once the generation task of a session has ended the session is not
\* PENDING or GENERATING, and once an inscription task has ended, its
\* finalization having failed or not, and no other is running, the session is
\* not PAYMENT_RECEIVED or INSCRIBING.
C25_EndedTaskRecordsOutcome ==
  \A s \in DOMAIN sessions :
    /\ gen[s] = "done" => sessions[s].status \notin {PENDING, GENERATING}
    /\ ( /\ InscriptionTasks(s) # {}
         /\ \A c \in InscriptionTasks(s) : ins[c] = "done"
         /\ \A c \in RaceConfirmIds :
              confirmCalls[c].sid = s => confirmCalls[c].pc # "write" )
       => sessions[s].status \notin {PAYMENT_RECEIVED, INSCRIBING}

\* C26: whenever a session's stored status is AWAITING_PAYMENT, it is linked
\* to a Cypher whose tokenId is the session's assignedTokenId and whose
\* status is AWAITING_PAYMENT, its paymentAddress is set and its progress
\* is 50.
C26_AwaitingPaymentShape ==
  \A s \in DOMAIN sessions :
    sessions[s].status = AWAITING_PAYMENT
      => /\ sessions[s].cypherId \in DOMAIN cyphers
         /\ cyphers[sessions[s].cypherId].tokenId = sessions[s].assignedTokenId
         /\ cyphers[sessions[s].cypherId].status = AWAITING_PAYMENT
         /\ sessions[s].paymentAddress # NoText
         /\ sessions[s].progress = 50

\* C26 witness: the generation task has ended and left the session
\* AWAITING_PAYMENT, linked to the Cypher of its token id
C26_Witness ==
  \E s \in DOMAIN sessions :
    /\ sessions[s].status = AWAITING_PAYMENT
    /\ gen[s] = "done"
    /\ sessions[s].cypherId \in DOMAIN cyphers
    /\ cyphers[sessions[s].cypherId].tokenId = sessions[s].assignedTokenId
    /\ sessions[s].paymentAddress = PaymentAddr

\* C27: whenever a session's stored status is INSCRIPTION_FAILED, its
\* errorMessage is set and its Cypher still is AWAITING_PAYMENT with no
\* inscriptionId.
C27_InscriptionFailedShape ==
  \A s \in DOMAIN sessions :
    sessions[s].status = INSCRIPTION_FAILED
      => /\ sessions[s].errorMessage # NoText
         /\ sessions[s].cypherId \in DOMAIN cyphers
         /\ cyphers[sessions[s].cypherId].status = AWAITING_PAYMENT
         /\ cyphers[sessions[s].cypherId].inscriptionId = NoInscription

\* the responses that carry a session's status and progress
IsSummary(r) == r.op \in {"start", "status"} /\ r.result = "ok"

\* C28: every start and getStatus response carries the status and progress
\* stored for the session at that moment, and of two responses that follow
\* one another on an active session the later progress is not the smaller.
C28_ObservedProgress ==
  [][\A s \in DOMAIN sessions' :
       (IsSummary(resp') /\ resp'.sid = s)
         => /\ resp'.status = sessions'[s].status
            /\ resp'.progress = sessions'[s].progress
            /\ ( /\ IsSummary(resp) /\ resp.sid = s
                 /\ sessions'[s].status \in NonTerminalStatuses )
               => resp'.progress >= resp.progress]_vars

\* C29: whenever a session's stored status is CONFIRMED, its progress is 100,
\* its completedAt is set and its Cypher is CONFIRMED with its inscriptionId
\* set.
C29_ConfirmedShape ==
  \A s \in DOMAIN sessions :
    sessions[s].status = CONFIRMED
      => /\ sessions[s].progress = 100
         /\ sessions[s].completedAt # NoTime
         /\ sessions[s].cypherId \in DOMAIN cyphers
         /\ cyphers[sessions[s].cypherId].status = CONFIRMED
         /\ cyphers[sessions[s].cypherId].inscriptionId # NoInscription

\* C29 witness: finalizeMint has just stored CONFIRMED
C29_Witness ==
  \E s \in DOMAIN sessions, c \in RaceConfirmIds :
    /\ sessions[s].status = CONFIRMED
    /\ confirmCalls[c].sid = s
    /\ ins[c] = "done"
    /\ sessions[s].completedAt = now

PaidStatuses == {PAYMENT_RECEIVED, INSCRIBING, INSCRIPTION_FAILED, CONFIRMED}

\* C30: whenever a session's stored status is PAYMENT_RECEIVED, INSCRIBING,
\* INSCRIPTION_FAILED or CONFIRMED, its paymentTxHash and its
\* paymentConfirmedAt are set and it is linked to a Cypher.
C30_PaidShape ==
  \A s \in DOMAIN sessions :
    sessions[s].status \in PaidStatuses
      => /\ sessions[s].paymentTxHash # NoText
         /\ sessions[s].paymentConfirmedAt # NoTime
         /\ sessions[s].cypherId \in DOMAIN cyphers

\* C30 witness: the inscription of a paid session has failed
C30_Witness ==
  \E s \in DOMAIN sessions :
    /\ sessions[s].status = INSCRIPTION_FAILED
    /\ sessions[s].paymentTxHash \in TxHashes
    /\ sessions[s].paymentConfirmedAt = SetTime
====
